---- MODULE Spec2Model ----
(***************************************************************************)
(* Job-searcher pipeline: the rule-based scorer (analyzers/rule-based),    *)
(* the batch deduplicator (scraper.removeDuplicateJobs), the posting       *)
(* fingerprint (database.createJobHash), the operations on the jobs        *)
(* collection (database), the weekly run (scraper.runWeeklyJobProcessing), *)
(* its description fetches (scraper.enrichJobsWithDescriptions) and the    *)
(* guard around it (index.runWeeklyJobs).                                  *)
(*                                                                         *)
(* A JavaScript string is a sequence of one-character strings, so that     *)
(* toLowerCase, template concatenation and String.includes are computed    *)
(* character by character.  An optional field is None (absent) or Some(v). *)
(***************************************************************************)
EXTENDS Integers, Sequences, FiniteSets, TLC

VARIABLES
    job,        \* the posting handed to the scorer
    criteria,   \* the criteria handed to the scorer
    res,        \* the posting analyzeJob returned, None before the call
    parts,      \* the sub-scores analyzeJob added up, None before the call
    prevScore,  \* the score before the last excluded keyword was added
    jobP, jobQ, \* two postings handed to createJobHash
    hashP,      \* createJobHash(jobP), None before the call
    hashQ,      \* createJobHash(jobQ), None before the call
    jobs,       \* the batch handed to removeDuplicateJobs
    unique,     \* removeDuplicateJobs(jobs), None before the call
    again,      \* removeDuplicateJobs applied to unique, None before the call
    db,         \* the jobs collection, in insertion order
    now,        \* the clock, in days
    refresh,    \* the weeklyRefreshJobs call in flight
    last,       \* the last store operation that ended, and what it returned
    run,        \* the runWeeklyJobProcessing call, None before it starts
    app,        \* index.ts: appState and the runWeeklyJobs invocations made
    enr         \* the enrichJobsWithDescriptions call and the scoring after it

scoreVars == <<job, criteria, res, parts, prevScore>>

hashVars == <<jobP, jobQ, hashP, hashQ>>

dedupVars == <<jobs, unique, again>>

storeVars == <<db, now, refresh, last>>

runVars == <<run, app, enr>>

vars == <<scoreVars, hashVars, dedupVars, storeVars, runVars>>

----------------------------------------------------------------------------
(* Optional values and JavaScript string primitives *)

None == <<>>

Some(v) == <<v>>

UpperLetters ==
    <<"A","B","C","D","E","F","G","H","I","J","K","L","M","N","O","P","Q","R","S","T","U","V","W","X","Y","Z">>

LowerLetters ==
    <<"a","b","c","d","e","f","g","h","i","j","k","l","m","n","o","p","q","r","s","t","u","v","w","x","y","z">>

\* String.prototype.toLowerCase on one character
lowerOf ==
    [c \in {UpperLetters[i] : i \in 1..26} |->
        LowerLetters[CHOOSE i \in 1..26 : UpperLetters[i] = c]]

toLowerChar(c) == IF c \in DOMAIN lowerOf THEN lowerOf[c] ELSE c

\* String.prototype.toLowerCase
toLowerCase(s) == [i \in 1..Len(s) |-> toLowerChar(s[i])]

\* String.prototype.includes: term occurs as a contiguous substring of text
includes(text, term) ==
    \E i \in 0..(Len(text) - Len(term)) :
        \A j \in 1..Len(term) : text[i + j] = term[j]

\* interpolation of an optional string in a template literal: an absent
\* value is rendered as the nine characters "undefined"
interpolate(opt) == IF opt = None THEN <<"u","n","d","e","f","i","n","e","d">> ELSE opt[1]

Max(a, b) == IF a >= b THEN a ELSE b

Min(a, b) == IF a <= b THEN a ELSE b

----------------------------------------------------------------------------
(* analyzers/rule-based: the term tables *)

\* createSkillGroups: the group of one lowercased skill key
skillVariations(key) ==
    <<key>>
    \o (IF key = <<"r","e","a","c","t">> THEN <<<<"r","e","a","c","t","j","s">>, <<"r","e","a","c","t",".","j","s">>>> ELSE <<>>)
    \o (IF key = <<"v","u","e">> THEN <<<<"v","u","e","j","s">>, <<"v","u","e",".","j","s">>>> ELSE <<>>)
    \o (IF key = <<"a","n","g","u","l","a","r">> THEN <<<<"a","n","g","u","l","a","r","j","s">>>> ELSE <<>>)
    \o (IF key = <<"n","o","d","e">> THEN <<<<"n","o","d","e","j","s">>, <<"n","o","d","e",".","j","s">>>> ELSE <<>>)
    \o (IF key = <<"t","y","p","e","s","c","r","i","p","t">> THEN <<<<"t","s">>>> ELSE <<>>)
    \o (IF key = <<"j","a","v","a","s","c","r","i","p","t">> THEN <<<<"j","s">>, <<"e","s","6">>, <<"e","s","2","0","1","5">>>> ELSE <<>>)
    \o (IF key = <<"p","y","t","h","o","n">> THEN <<<<"p","y">>>> ELSE <<>>)
    \o (IF key = <<"d","o","c","k","e","r">> THEN <<<<"c","o","n","t","a","i","n","e","r","i","z","a","t","i","o","n">>>> ELSE <<>>)
    \o (IF key = <<"k","u","b","e","r","n","e","t","e","s">> THEN <<<<"k","8","s">>>> ELSE <<>>)
    \o (IF key = <<"a","w","s">> THEN <<<<"a","m","a","z","o","n"," ","w","e","b"," ","s","e","r","v","i","c","e","s">>>> ELSE <<>>)

levelNames ==
    <<<<"j","u","n","i","o","r">>, <<"m","i","d">>, <<"s","e","n","i","o","r">>>>

levelMappings ==
    << <<<<"j","u","n","i","o","r">>, <<"e","n","t","r","y">>, <<"g","r","a","d","u","a","t","e">>, <<"0","-","2"," ","y","e","a","r","s">>, <<"n","e","w"," ","g","r","a","d">>>>,
       <<<<"m","i","d">>, <<"i","n","t","e","r","m","e","d","i","a","t","e">>, <<"2","-","5"," ","y","e","a","r","s">>, <<"3","-","5"," ","y","e","a","r","s">>, <<"e","x","p","e","r","i","e","n","c","e","d">>>>,
       <<<<"s","e","n","i","o","r">>, <<"l","e","a","d">>, <<"5","+"," ","y","e","a","r","s">>, <<"7","+"," ","y","e","a","r","s">>, <<"e","x","p","e","r","t">>, <<"p","r","i","n","c","i","p","a","l">>>> >>

\* levelMappings[targetLevel] || [targetLevel]
targetTerms(targetLevel) ==
    IF \E l \in 1..3 : levelNames[l] = targetLevel
    THEN levelMappings[CHOOSE l \in 1..3 : levelNames[l] = targetLevel]
    ELSE <<targetLevel>>

remoteTerms ==
    <<<<"r","e","m","o","t","e">>, <<"w","o","r","k"," ","f","r","o","m"," ","h","o","m","e">>, <<"w","f","h">>, <<"d","i","s","t","r","i","b","u","t","e","d">>, <<"a","n","y","w","h","e","r","e">>>>

premiumIndicators ==
    << [terms |-> <<<<"e","q","u","i","t","y">>, <<"s","t","o","c","k"," ","o","p","t","i","o","n","s">>, <<"r","s","u">>>>, points |-> 3],
       [terms |-> <<<<"u","n","l","i","m","i","t","e","d"," ","p","t","o">>, <<"f","l","e","x","i","b","l","e"," ","t","i","m","e"," ","o","f","f">>>>, points |-> 3],
       [terms |-> <<<<"l","e","a","r","n","i","n","g"," ","b","u","d","g","e","t">>, <<"c","o","n","f","e","r","e","n","c","e">>, <<"t","r","a","i","n","i","n","g">>>>, points |-> 2] >>

----------------------------------------------------------------------------
(* Inputs of the scorer *)

MaxFrags == 2

MaxSkills == 3

MaxExcluded == 4

Titles ==
    {<<"F","r","o","n","t","e","n","d"," ","D","e","v","e","l","o","p","e","r">>, <<"S","e","n","i","o","r"," ","P","y","t","h","o","n"," ","D","e","v"," ","(","R","e","m","o","t","e",")">>}

MockDescription ==
    <<"R","e","a","c","t"," ","a","n","d"," ","T","y","p","e","S","c","r","i","p","t",","," ","r","e","m","o","t","e","-","f","i","r","s","t",","," ","3","+"," ","y","e","a","r","s">>

Fragments ==
    <<<<"R","e","a","c","t","J","S"," ","a","n","d"," ","T","S">>, <<"m","i","d","-","l","e","v","e","l">>, <<"P","a","r","i","s">>, <<"b","l","o","c","k","c","h","a","i","n"," ","D","e","F","i">>,
      <<"e","q","u","i","t","y",","," ","u","n","l","i","m","i","t","e","d"," ","P","T","O",","," ","t","r","a","i","n","i","n","g">>>>

\* the strictly increasing index sequences of length at most n over 1..m
RECURSIVE increasingSeqs(_, _)
increasingSeqs(m, n) ==
    IF n = 0 THEN {<<>>}
    ELSE LET shorter == increasingSeqs(m, n - 1)
         IN  shorter \cup
             {Append(x[1], x[2]) :
                 x \in {y \in shorter \X (1..m) :
                          /\ Len(y[1]) = n - 1
                          /\ (n = 1 \/ y[1][n - 1] < y[2])}}

\* the chosen fragments joined by ", "
RECURSIVE joinFragments(_)
joinFragments(idx) ==
    IF Len(idx) = 0 THEN <<>>
    ELSE IF Len(idx) = 1 THEN Fragments[idx[1]]
    ELSE Fragments[idx[1]] \o <<","," ">> \o joinFragments(Tail(idx))

Descriptions ==
    {None, Some(MockDescription)}
        \cup {Some(joinFragments(idx)) :
                idx \in increasingSeqs(Len(Fragments), MaxFrags)}

SkillUniverse ==
    <<<<"R","e","a","c","t">>, <<"T","y","p","e","S","c","r","i","p","t">>, <<"P","y","t","h","o","n">>>>

CoreSkillLists ==
    {[k \in 1..Len(idx) |-> SkillUniverse[idx[k]]] :
        idx \in increasingSeqs(Len(SkillUniverse), MaxSkills)}

ExperienceLevels ==
    {None, Some(<<"m","i","d">>), Some(<<"s","e","n","i","o","r">>), Some(<<"M","i","d","-","l","e","v","e","l">>)}

RemotePreferences ==
    {<<>>, <<"r","e","m","o","t","e">>, <<"h","y","b","r","i","d">>}

LocationLists ==
    {<<>>, <<<<"B","e","r","l","i","n">>, <<"P","a","r","i","s">>>>}

ExcludedUniverse ==
    {<<"D","e","F","i">>, <<"P","T","O">>}

\* criteria.excludedKeywords || []
excludedOf(opt) == IF opt = None THEN <<>> ELSE opt[1]

InitialExcluded ==
    {None, Some(<<<<"b","l","o","c","k","c","h","a","i","n">>>>)}

Postings ==
    [title : Titles, company : {<<"A","c","m","e">>}, url : {<<"x","/","1">>},
     description : Descriptions, score : {None},
     source : {Some("LinkedIn")}, analysis_status : {None}]

CriteriaValues ==
    [keywords : {<<>>}, locations : LocationLists,
     experienceLevel : ExperienceLevels, coreSkills : CoreSkillLists,
     remotePreference : RemotePreferences, excludedKeywords : InitialExcluded]

----------------------------------------------------------------------------
(* The texts and terms of the inputs above.  Lowercasing a posting's text  *)
(* and searching it for a term are computed once per text and term, by     *)
(* toLowerCase and includes, and looked up afterwards.                     *)

Range(s) == {s[i] : i \in 1..Len(s)}

\* `${job.title} ${job.description}`.toLowerCase()
computeJobText(title, description) ==
    toLowerCase(title \o <<" ">> \o interpolate(description))

jobTextTable ==
    [td \in Titles \X Descriptions |-> computeJobText(td[1], td[2])]

jobText(j) ==
    IF <<j.title, j.description>> \in DOMAIN jobTextTable
    THEN jobTextTable[<<j.title, j.description>>]
    ELSE computeJobText(j.title, j.description)

knownTerms ==
    UNION {Range(skillVariations(toLowerCase(s))) : s \in Range(SkillUniverse)}
    \cup UNION {Range(levelMappings[l]) : l \in 1..3}
    \cup UNION {Range(targetTerms(toLowerCase(e[1]))) :
                    e \in ExperienceLevels \ {None}}
    \cup Range(remoteTerms)
    \cup UNION {Range(premiumIndicators[n].terms) : n \in 1..Len(premiumIndicators)}
    \cup {toLowerCase(l) : l \in UNION {Range(ls) : ls \in LocationLists}}
    \cup {toLowerCase(k) : k \in ExcludedUniverse}
    \cup {toLowerCase(k) : k \in UNION {Range(excludedOf(x)) : x \in InitialExcluded}}

includesTable ==
    [text \in {jobTextTable[td] : td \in DOMAIN jobTextTable} |->
        {w \in knownTerms : includes(text, w)}]

\* jobText.includes(term)
textIncludes(text, term) ==
    IF text \in DOMAIN includesTable /\ term \in knownTerms
    THEN term \in includesTable[text]
    ELSE includes(text, term)

\* terms.some((term) => jobText.includes(term))
someIncluded(text, terms) ==
    \E k \in 1..Len(terms) : textIncludes(text, terms[k])

----------------------------------------------------------------------------
(* analyzers/rule-based: the scoring functions *)

\* matchedSkills with the skill itself as its only variation
matchedSkillsNoVariations(j, coreSkills) ==
    LET text == jobText(j)
    IN  Cardinality({k \in 1..Len(coreSkills) :
            textIncludes(text, toLowerCase(coreSkills[k]))})

\* the number of entries of coreSkills one of whose variations is in the text
matchedSkills(j, coreSkills) ==
    LET text == jobText(j)
    IN  Cardinality({k \in 1..Len(coreSkills) :
            someIncluded(text, skillVariations(toLowerCase(coreSkills[k])))})

\* scoreSkills with the top step taken at two matches
scoreSkillsTopAtTwo(j, coreSkills) ==
    IF Len(coreSkills) = 0 THEN 15
    ELSE LET m == matchedSkills(j, coreSkills)
         IN  IF m >= 2 THEN 40
             ELSE IF m = 0 THEN 0
             ELSE 30

scoreSkills(j, coreSkills) ==
    IF Len(coreSkills) = 0 THEN 15
    ELSE LET m == matchedSkills(j, coreSkills)
         IN  IF m > 2 THEN 40
             ELSE IF m = 0 THEN 0
             ELSE 30

hasMatch(j, preferredLevel) ==
    someIncluded(jobText(j), targetTerms(toLowerCase(preferredLevel)))

hasConflict(j, preferredLevel) ==
    LET text == jobText(j)
    IN  \E l \in 1..3 :
            /\ levelNames[l] # toLowerCase(preferredLevel)
            /\ someIncluded(text, levelMappings[l])

\* scoreExperienceLevel with the conflict tested before the match
scoreExperienceLevelConflictFirst(j, preferredLevel) ==
    IF preferredLevel = None \/ preferredLevel = Some(<<>>) THEN 15
    ELSE IF hasConflict(j, preferredLevel[1]) THEN 8
    ELSE IF hasMatch(j, preferredLevel[1]) THEN 30
    ELSE 15

\* !preferredLevel holds of an absent level and of the empty string
scoreExperienceLevel(j, preferredLevel) ==
    IF preferredLevel = None \/ preferredLevel = Some(<<>>) THEN 15
    ELSE IF hasMatch(j, preferredLevel[1]) THEN 30
    ELSE IF hasConflict(j, preferredLevel[1]) THEN 8
    ELSE 15

hasRemote(j) == someIncluded(jobText(j), remoteTerms)

hasLocationMatch(j, locations) ==
    LET text == jobText(j)
    IN  \E k \in 1..Len(locations) :
            textIncludes(text, toLowerCase(locations[k]))

\* scoreLocation with the location hit overwriting the remote result
scoreLocationOverwrite(j, c) ==
    LET afterRemote ==
            IF /\ c.remotePreference \in {<<"r","e","m","o","t","e">>, <<"h","y","b","r","i","d">>}
               /\ hasRemote(j)
            THEN 30 ELSE 15
    IN  IF Len(c.locations) > 0 /\ hasLocationMatch(j, c.locations)
        THEN 25
        ELSE afterRemote

scoreLocation(j, c) ==
    LET afterRemote ==
            IF /\ c.remotePreference \in {<<"r","e","m","o","t","e">>, <<"h","y","b","r","i","d">>}
               /\ hasRemote(j)
            THEN 30 ELSE 15
    IN  IF Len(c.locations) > 0 /\ hasLocationMatch(j, c.locations)
        THEN Max(afterRemote, 25)
        ELSE afterRemote

excludedList(c) == excludedOf(c.excludedKeywords)

\* scoreExclusions comparing the keyword as written, not lowercased
scoreExclusionsCaseSensitive(j, c) ==
    LET ex == excludedList(c)
        text == jobText(j)
    IN  (0 - 10) * Cardinality({k \in 1..Len(ex) : textIncludes(text, ex[k])})

scoreExclusions(j, c) ==
    LET ex == excludedList(c)
        text == jobText(j)
    IN  (0 - 10) * Cardinality({k \in 1..Len(ex) :
                        textIncludes(text, toLowerCase(ex[k]))})

RECURSIVE bonusFrom(_, _)
bonusFrom(text, n) ==
    IF n = 0 THEN 0
    ELSE bonusFrom(text, n - 1)
         + (IF someIncluded(text, premiumIndicators[n].terms)
            THEN premiumIndicators[n].points ELSE 0)

scoreBonusFeatures(j) ==
    LET text == jobText(j)
    IN  Min(bonusFrom(text, Len(premiumIndicators)), 10)

\* the five sub-scores analyzeJob adds up
subScores(j, c) ==
    [skill     |-> scoreSkills(j, c.coreSkills),
     exp       |-> scoreExperienceLevel(j, c.experienceLevel),
     location  |-> scoreLocation(j, c),
     exclusion |-> scoreExclusions(j, c),
     bonus     |-> scoreBonusFeatures(j)]

rawScore(j, c) ==
    LET s == subScores(j, c)
    IN  s.skill + s.exp + s.location + s.exclusion + s.bonus

\* clampScore without the upper limit
clampScoreNoCeiling(score) == Max(0, score)

\* Math.max(0, Math.min(100, score))
clampScore(score) == Max(0, Min(100, score))

\* analyzeJob: { ...job, score: Math.round(score) }; the sum is an integer,
\* which Math.round leaves as it is
analyzeJob(j, c) == [j EXCEPT !.score = Some(clampScore(rawScore(j, c)))]

----------------------------------------------------------------------------
(* The scorer applied to one posting *)

\* no posting is being hashed
hashIdle == jobP = None /\ jobQ = None /\ hashP = None /\ hashQ = None

\* no batch is being deduplicated
dedupIdle == jobs = <<>> /\ unique = None /\ again = None

\* the store is empty and no store operation has run
storeIdle ==
    /\ db = <<>>
    /\ now = 0
    /\ refresh = None
    /\ last = None

\* no run has started
\* appState as index.ts declares it, and no runWeeklyJobs invocation made
appIdle == [isRunning |-> FALSE, pcs |-> <<>>]

runIdle ==
    /\ run = None
    /\ app = appIdle
    /\ enr = None

InitScore ==
    /\ job \in Postings
    /\ criteria \in CriteriaValues
    /\ res = None
    /\ parts = None
    /\ prevScore = None
    /\ hashIdle
    /\ dedupIdle
    /\ storeIdle
    /\ runIdle

\* RuleBasedAnalyzer.analyzeJob(job, criteria)
AnalyzeJob ==
    /\ res = None
    /\ res' = Some(analyzeJob(job, criteria))
    /\ parts' = Some(subScores(job, criteria))
    /\ UNCHANGED <<job, criteria, prevScore, hashVars, dedupVars, storeVars, runVars>>

\* the same posting analysed again with one more excluded keyword, one
\* that occurs in the posting's text
AnalyzeWithExclusion(k) ==
    /\ res # None
    /\ Len(excludedList(criteria)) < MaxExcluded
    /\ textIncludes(jobText(job), toLowerCase(k))
    /\ LET c == [criteria EXCEPT
                    !.excludedKeywords = Some(Append(excludedList(criteria), k))]
       IN  /\ criteria' = c
           /\ res' = Some(analyzeJob(job, c))
           /\ parts' = Some(subScores(job, c))
    /\ prevScore' = res[1].score
    /\ UNCHANGED <<job, hashVars, dedupVars, storeVars, runVars>>

NextScore ==
    \/ AnalyzeJob
    \/ \E k \in ExcludedUniverse : AnalyzeWithExclusion(k)

SpecScore == InitScore /\ [][NextScore]_vars

----------------------------------------------------------------------------
(* database.createJobHash *)

\* crypto.createHash('md5').update(content).digest('hex'): the digest is a
\* function of the content alone; MD5 is taken to be free of collisions,
\* so two digests are equal exactly when the contents are
md5(content) == [digest |-> "md5", of |-> content]

\* createJobHash hashing the content as written, not lowercased
createJobHashCaseSensitive(j) ==
    md5(j.title \o <<"-">> \o j.company \o <<"-">> \o j.url)

\* `${job.title}-${job.company}-${job.url}`, lowercased, then hashed
createJobHash(j) ==
    md5(toLowerCase(j.title \o <<"-">> \o j.company \o <<"-">> \o j.url))

HashPostings ==
    {[title |-> t, company |-> c, url |-> u, description |-> x.description,
      score |-> x.score, source |-> x.source,
      analysis_status |-> x.analysis_status] :
        t \in {<<"D","e","v">>, <<"D","E","V">>, <<"O","p","s">>,
               <<"Q","A">>, <<"Q","A","-","X">>},
        c \in {<<"A","c","m","e">>, <<"A","C","M","E">>, <<"Y">>,
               <<"X","-","Y">>},
        u \in {<<"x","/","1">>, <<"X","/","1">>, <<"x","/","2">>},
        x \in {[description |-> None, score |-> None,
                source |-> Some("LinkedIn"), analysis_status |-> None],
               [description |-> Some(<<"G","o">>), score |-> Some(80),
                source |-> Some("Google Jobs"),
                analysis_status |-> Some("analyzed")]}}

\* no posting is being scored
scoreIdle ==
    /\ job = None
    /\ criteria = None
    /\ res = None
    /\ parts = None
    /\ prevScore = None

InitHash ==
    /\ jobP \in HashPostings
    /\ jobQ \in HashPostings
    /\ hashP = None
    /\ hashQ = None
    /\ scoreIdle
    /\ dedupIdle
    /\ storeIdle
    /\ runIdle

CreateJobHashP ==
    /\ hashP = None
    /\ hashP' = Some(createJobHash(jobP))
    /\ UNCHANGED <<jobP, jobQ, hashQ, scoreVars, dedupVars, storeVars, runVars>>

CreateJobHashQ ==
    /\ hashQ = None
    /\ hashQ' = Some(createJobHash(jobQ))
    /\ UNCHANGED <<jobP, jobQ, hashP, scoreVars, dedupVars, storeVars, runVars>>

NextHash ==
    \/ CreateJobHashP
    \/ CreateJobHashQ

SpecHash == InitHash /\ [][NextHash]_vars

----------------------------------------------------------------------------
(* scraper.removeDuplicateJobs *)

MaxLen == 3

\* j.title.toLowerCase() === job.title.toLowerCase() &&
\* j.company.toLowerCase() === job.company.toLowerCase()
sameTitleAndCompany(a, b) ==
    /\ toLowerCase(a.title) = toLowerCase(b.title)
    /\ toLowerCase(a.company) = toLowerCase(b.company)

\* findIndex looking for the last index that satisfies the test
findLastIndex(self, j) ==
    IF \E i \in 1..Len(self) : sameTitleAndCompany(self[i], j)
    THEN CHOOSE i \in 1..Len(self) :
            /\ sameTitleAndCompany(self[i], j)
            /\ \A k \in (i + 1)..Len(self) : ~sameTitleAndCompany(self[k], j)
    ELSE 0

\* self.findIndex(...): the first index whose posting has the title and
\* company of job, 0 when there is none (JavaScript's -1)
findIndex(self, j) ==
    IF \E i \in 1..Len(self) : sameTitleAndCompany(self[i], j)
    THEN CHOOSE i \in 1..Len(self) :
            /\ sameTitleAndCompany(self[i], j)
            /\ \A k \in 1..(i - 1) : ~sameTitleAndCompany(self[k], j)
    ELSE 0

\* jobs.filter((job, index, self) => index === self.findIndex(...)),
\* from index i on
RECURSIVE filterFrom(_, _)
filterFrom(self, i) ==
    IF i > Len(self) THEN <<>>
    ELSE (IF i = findIndex(self, self[i]) THEN <<self[i]>> ELSE <<>>)
         \o filterFrom(self, i + 1)

Reverse(s) == [i \in 1..Len(s) |-> s[Len(s) + 1 - i]]

\* removeDuplicateJobs collecting the kept postings at the front
removeDuplicateJobsReversed(js) == Reverse(filterFrom(js, 1))

removeDuplicateJobs(js) == filterFrom(js, 1)

DedupPostings ==
    {[title |-> t, company |-> c, url |-> u, description |-> None,
      score |-> None, source |-> Some("LinkedIn"), analysis_status |-> None] :
        t \in {<<"D","e","v">>, <<"D","E","V">>, <<"O","p","s">>},
        c \in {<<"A","c","m","e">>, <<"A","C","M","E">>},
        u \in {<<"x","/","1">>, <<"x","/","2">>}}

InitDedup ==
    /\ jobs \in UNION {[1..n -> DedupPostings] : n \in 0..MaxLen}
    /\ unique = None
    /\ again = None
    /\ scoreIdle
    /\ hashIdle
    /\ storeIdle
    /\ runIdle

RemoveDuplicateJobs ==
    /\ unique = None
    /\ unique' = Some(removeDuplicateJobs(jobs))
    /\ UNCHANGED <<jobs, again, scoreVars, hashVars, storeVars, runVars>>

\* removeDuplicateJobs applied to its own output
RemoveDuplicateJobsAgain ==
    /\ unique # None
    /\ again = None
    /\ again' = Some(removeDuplicateJobs(unique[1]))
    /\ UNCHANGED <<jobs, unique, scoreVars, hashVars, storeVars, runVars>>

NextDedup ==
    \/ RemoveDuplicateJobs
    \/ RemoveDuplicateJobsAgain

SpecDedup == InitDedup /\ [][NextDedup]_vars

----------------------------------------------------------------------------
(* database: the jobs collection and the operations on it.  The collection *)
(* is the sequence of its documents in insertion order; the clock counts   *)
(* days.  An operation runs while no weeklyRefreshJobs call is in flight;  *)
(* weeklyRefreshJobs takes one step per store request it awaits.           *)

MaxBatch == 2

MaxNow == 14

MaxRecords == 4

\* 7 * 24 * 60 * 60 * 1000 milliseconds, in days
RetentionDays == 7

TickDays == {7}

StorePostings ==
    {[title |-> x[1], company |-> <<"A","c","m","e">>, url |-> x[2], description |-> None,
      score |-> None, source |-> Some("LinkedIn"),
      analysis_status |-> None] :
        x \in {<<<<"D","e","v">>, <<"x","/","1">>>>, <<<<"D","e","v">>, <<"X","/","1">>>>, <<<<"O","p","s">>, <<"x","/","1">>>>,
               <<<<>>, <<"x","/","3">>>>}}

\* config.jobCriteria with no environment variable set
jobCriteria ==
    [keywords |-> <<<<"s","o","f","t","w","a","r","e"," ","e","n","g","i","n","e","e","r">>>>, locations |-> <<<<"R","e","m","o","t","e">>>>,
     experienceLevel |-> Some(<<"M","i","d","-","l","e","v","e","l">>), coreSkills |-> <<>>,
     remotePreference |-> <<"R","e","m","o","t","e"," ","p","r","e","f","e","r","r","e","d">>, excludedKeywords |-> Some(<<>>)]

\* the postings as the scorer hands them to the store
AnalyzedPostings == {analyzeJob(j, jobCriteria) : j \in StorePostings}

Batches(S) == UNION {[1..n -> S] : n \in 0..MaxBatch}

\* the required paths of jobSchema: a required String rejects ''
valid(doc) ==
    /\ doc.title # <<>>
    /\ doc.company # <<>>
    /\ doc.url # <<>>
    /\ doc.source # None

\* the batches handed to weeklyRefreshJobs: the batches of valid postings,
\* and each invalid posting alone
RefreshBatches ==
    Batches({j \in AnalyzedPostings : valid(j)})
    \cup {<<j>> : j \in {x \in AnalyzedPostings : ~valid(x)}}

\* a document left with the schema's default analysis_status
newDocumentDefaultStatus(j, status, at) ==
    [title |-> j.title, company |-> j.company, url |-> j.url,
     description |-> IF j.description = None THEN Some(<<>>) ELSE j.description,
     score |-> j.score, source |-> j.source, hash |-> createJobHash(j),
     analysis_status |-> "pending", scraped_at |-> at]

\* { ...job, hash: createJobHash(job), analysis_status, scraped_at } with
\* the defaults of jobSchema
newDocument(j, status, at) ==
    [title |-> j.title, company |-> j.company, url |-> j.url,
     description |-> IF j.description = None THEN Some(<<>>) ELSE j.description,
     score |-> j.score, source |-> j.source, hash |-> createJobHash(j),
     analysis_status |-> status, scraped_at |-> at]

\* Job.findOne({ hash }) finds a document
findOne(d, hash) == \E i \in 1..Len(d) : d[i].hash = hash

\* a collection without the unique index on hash
duplicateKeyNever(d, doc) == FALSE

\* hash: { unique: true }: inserting doc raises a duplicate key error
duplicateKey(d, doc) == \E i \in 1..Len(d) : d[i].hash = doc.hash

\* the ordered insert the server runs: it stops at the first document that
\* raises an error and keeps the documents inserted before it
RECURSIVE insertOrdered(_, _)
insertOrdered(d, docs) ==
    IF docs = <<>> THEN [db |-> d, error |-> "none"]
    ELSE IF duplicateKey(d, Head(docs)) THEN [db |-> d, error |-> "E11000"]
    ELSE insertOrdered(Append(d, Head(docs)), Tail(docs))

\* Job.insertMany(docs): every document is validated before any is sent
insertMany(d, docs) ==
    IF \E k \in 1..Len(docs) : ~valid(docs[k])
    THEN [db |-> d, error |-> "ValidationError"]
    ELSE insertOrdered(d, docs)

\* Job.distinct('url')
distinctUrls(d) == {d[i].url : i \in 1..Len(d)}

\* a deleteMany that protects no URL
batchUrlsNone(batch) == {}

\* jobs.map((j) => j.url)
batchUrls(batch) == {batch[k].url : k \in 1..Len(batch)}

\* deleteMany's filter with $lte in place of $lt
expiredFromRetention(doc, batch, at) ==
    /\ doc.scraped_at <= at - RetentionDays
    /\ doc.url \notin batchUrls(batch)

\* { scraped_at: { $lt: oneWeekAgo }, url: { $nin: jobs.map((j) => j.url) } }
expired(doc, batch, at) ==
    /\ doc.scraped_at < at - RetentionDays
    /\ doc.url \notin batchUrls(batch)

\* jobs.filter((job) => !existingUrls.has(job.url))
RECURSIVE filterNew(_, _)
filterNew(batch, existingUrls) ==
    IF batch = <<>> THEN <<>>
    ELSE (IF Head(batch).url \in existingUrls THEN <<>> ELSE <<Head(batch)>>)
         \o filterNew(Tail(batch), existingUrls)

\* what an operation leaves behind when it ends: its name, the posting
\* saveJobToDatabase was given, and as outcome "returned" with the value
\* returned, or the name of the error thrown
ended(op, arg, outcome, ret) ==
    [op |-> op, arg |-> arg, outcome |-> outcome, ret |-> ret]

\* saveJobToDatabase(job) on collection d at time at: the collection it
\* leaves and the value it returns.  The store answers the call's requests
\* when up; what findOne or Job.create throws is caught and false returned
saveJobToDatabase(d, j, up, at) ==
    LET hash == createJobHash(j)
        jobToSave == newDocument(j, "analyzed", at)
        created == /\ up
                   /\ ~findOne(d, hash)
                   /\ valid(jobToSave)
                   /\ ~duplicateKey(d, jobToSave)
    IN  [db |-> IF created THEN Append(d, jobToSave) ELSE d, ret |-> created]

SaveJobToDatabase(j, up) ==
    /\ refresh = None
    /\ Len(db) < MaxRecords
    /\ LET r == saveJobToDatabase(db, j, up, now)
       IN  /\ db' = r.db
           /\ last' = Some(ended("saveJobToDatabase", <<j>>, "returned", r.ret))
    /\ UNCHANGED <<now, refresh, scoreVars, hashVars, dedupVars, runVars>>

\* the loop of saveJobs over batch: the collection it leaves and the count
RECURSIVE saveJobsFrom(_, _, _, _)
saveJobsFrom(d, batch, up, at) ==
    IF batch = <<>> THEN [db |-> d, savedCount |-> 0]
    ELSE LET j == Head(batch)
             created == /\ up
                        /\ ~findOne(d, createJobHash(j))
                        /\ valid(j)
                        /\ ~duplicateKey(d, newDocument(j, "pending", at))
             rest == saveJobsFrom(IF created
                                  THEN Append(d, newDocument(j, "pending", at))
                                  ELSE d,
                                  Tail(batch), up, at)
         IN  [db |-> rest.db,
              savedCount |-> rest.savedCount + (IF created THEN 1 ELSE 0)]

\* saveJobs(jobs), the save of the scrape-then-analyze pipeline
SaveJobs(batch, up) ==
    /\ refresh = None
    /\ Len(db) + Len(batch) <= MaxRecords
    /\ LET r == saveJobsFrom(db, batch, up, now)
       IN  /\ db' = r.db
           /\ last' = Some(ended("saveJobs", <<>>, "returned", r.savedCount))
    /\ UNCHANGED <<now, refresh, scoreVars, hashVars, dedupVars, runVars>>

\* weeklyRefreshJobs up to the filter: Job.distinct('url'), then newJobs
WeeklyRefreshJobsDistinct(batch, up) ==
    /\ refresh = None
    /\ IF up
       THEN /\ refresh' = Some([pc |-> "deleteMany", jobs |-> batch,
                                newJobs |-> filterNew(batch, distinctUrls(db)),
                                before |-> db])
            /\ UNCHANGED last
       ELSE /\ refresh' = None
            /\ last' = Some(ended("weeklyRefreshJobs", <<>>,
                            "MongoNetworkError", 0))
    /\ UNCHANGED <<db, now, scoreVars, hashVars, dedupVars, runVars>>

\* weeklyRefreshJobs: Job.deleteMany(...)
WeeklyRefreshJobsDeleteMany(up) ==
    /\ refresh # None
    /\ refresh[1].pc = "deleteMany"
    /\ LET call == refresh[1]
           kept(doc) == ~expired(doc, call.jobs, now)
       IN  IF up
           THEN /\ db' = SelectSeq(db, kept)
                /\ refresh' = Some([call EXCEPT !.pc = "insertMany"])
                /\ UNCHANGED last
           ELSE /\ refresh' = None
                /\ last' = Some(ended("weeklyRefreshJobs", <<>>,
                            "MongoNetworkError", 0))
                /\ UNCHANGED db
    /\ UNCHANGED <<now, scoreVars, hashVars, dedupVars, runVars>>

\* weeklyRefreshJobs from `if (newJobs.length > 0)` to its end
WeeklyRefreshJobsInsertMany(up) ==
    /\ refresh # None
    /\ refresh[1].pc = "insertMany"
    /\ Len(db) + Len(refresh[1].newJobs) <= MaxRecords
    /\ LET call == refresh[1]
           jobsToInsert == [k \in 1..Len(call.newJobs) |->
                               newDocument(call.newJobs[k], "analyzed", now)]
           r == IF Len(call.newJobs) = 0 THEN [db |-> db, error |-> "none"]
                ELSE IF up THEN insertMany(db, jobsToInsert)
                ELSE [db |-> db, error |-> "MongoNetworkError"]
       IN  /\ db' = r.db
           /\ last' = Some(IF r.error = "none"
                           THEN ended("weeklyRefreshJobs", <<>>, "returned",
                                      Len(call.newJobs))
                           ELSE ended("weeklyRefreshJobs", <<>>, r.error, 0))
    /\ refresh' = None
    /\ UNCHANGED <<now, scoreVars, hashVars, dedupVars, runVars>>

\* RuleBasedAnalyzer.analyzeJob(job, userCriteria).score || 0
scoreOrZero(doc) ==
    LET analyzed == analyzeJob(doc, jobCriteria)
    IN  IF analyzed.score = None THEN 0 ELSE analyzed.score[1]

\* a find with no filter on analysis_status
pendingIdsAnyStatus(d) == 1..Len(d)

\* Job.find({ analysis_status: 'pending' })
pendingIds(d) == {i \in 1..Len(d) : d[i].analysis_status = "pending"}

\* analyzePendingJobs(userCriteria); the scorer throws on the records of
\* throwing.  analyzer-new.analyzeJob catches what the scorer throws and
\* yields score 0; updateJobAnalysis stores the score
AnalyzePendingJobs(throwing, up) ==
    /\ refresh = None
    /\ throwing \subseteq pendingIds(db)
    /\ LET jobsToAnalyze == IF up THEN pendingIds(db) ELSE {}
           updated(i) == [db[i] EXCEPT
                            !.score = Some(IF i \in throwing THEN 0
                                           ELSE scoreOrZero(db[i])),
                            !.analysis_status = "analyzed"]
       IN  /\ db' = [i \in 1..Len(db) |->
                        IF i \in jobsToAnalyze THEN updated(i) ELSE db[i]]
           /\ last' = Some(ended("analyzePendingJobs", <<>>, "returned",
                                 Cardinality(jobsToAnalyze)))
    /\ UNCHANGED <<now, refresh, scoreVars, hashVars, dedupVars, runVars>>

\* the record the cleanup keeps of its hash group: the first of the group
\* sorted by scraped_at
oldestOfHash(d, i) ==
    \A k \in 1..Len(d) :
        (k # i /\ d[k].hash = d[i].hash) =>
            \/ d[i].scraped_at < d[k].scraped_at
            \/ (d[i].scraped_at = d[k].scraped_at /\ i < k)

RECURSIVE keepOldestFrom(_, _)
keepOldestFrom(d, i) ==
    IF i > Len(d) THEN <<>>
    ELSE (IF oldestOfHash(d, i) THEN <<d[i]>> ELSE <<>>)
         \o keepOldestFrom(d, i + 1)

\* database.removeDuplicateJobs(), the cleanup by hash
RemoveDuplicateRecords(up) ==
    /\ refresh = None
    /\ LET after == IF up THEN keepOldestFrom(db, 1) ELSE db
       IN  /\ db' = after
           /\ last' = Some(ended("removeDuplicateJobs", <<>>, "returned",
                                 Len(db) - Len(after)))
    /\ UNCHANGED <<now, refresh, scoreVars, hashVars, dedupVars, runVars>>

\* a day or more passes between two operations
AdvanceClock(d) ==
    /\ refresh = None
    /\ now + d <= MaxNow
    /\ now' = now + d
    /\ UNCHANGED <<db, refresh, last, scoreVars, hashVars, dedupVars, runVars>>

InitStore ==
    /\ db = <<>>
    /\ now = 0
    /\ refresh = None
    /\ last = None
    /\ scoreIdle
    /\ hashIdle
    /\ dedupIdle
    /\ runIdle

NextStore ==
    \/ \E j \in AnalyzedPostings, up \in BOOLEAN : SaveJobToDatabase(j, up)
    \/ \E batch \in Batches(StorePostings), up \in BOOLEAN :
            SaveJobs(batch, up)
    \/ \E batch \in RefreshBatches, up \in BOOLEAN :
            WeeklyRefreshJobsDistinct(batch, up)
    \/ \E up \in BOOLEAN : WeeklyRefreshJobsDeleteMany(up)
    \/ \E up \in BOOLEAN : WeeklyRefreshJobsInsertMany(up)
    \/ \E throwing \in SUBSET (1..MaxRecords), up \in BOOLEAN :
            AnalyzePendingJobs(throwing, up)
    \/ \E up \in BOOLEAN : RemoveDuplicateRecords(up)
    \/ \E d \in TickDays : AdvanceClock(d)

SpecStore == InitStore /\ [][NextStore]_vars

----------------------------------------------------------------------------
(* scraper.runWeeklyJobProcessing: scrape the two sources, deduplicate,    *)
(* fetch the descriptions, then score and save posting by posting.  A     *)
(* source is reached or not, a description page yields a text or nothing, *)
(* the scorer throws on a posting or not, and the store answers a save or *)
(* not.  The run counts the pages open in its browser.                    *)

MaxPerSource == 2

\* what the LinkedIn listing page holds, in page order
LinkedInListing ==
    <<[title |-> <<"D","e","v">>, company |-> <<"A","c","m","e">>, url |-> <<"l","/","1">>, description |-> None,
       score |-> None, source |-> Some("linkedin"), analysis_status |-> None],
      [title |-> <<"O","p","s">>, company |-> <<"A","c","m","e">>, url |-> <<"l","/","2">>, description |-> None,
       score |-> None, source |-> Some("linkedin"), analysis_status |-> None]>>

\* what the Google Jobs listing page holds, in page order
GoogleListing ==
    <<[title |-> <<"d","e","v">>, company |-> <<"A","C","M","E">>, url |-> <<"g","/","1">>, description |-> None,
       score |-> None, source |-> Some("google"),
       analysis_status |-> None],
      [title |-> <<"Q","A">>, company |-> <<"A","c","m","e">>, url |-> <<"g","/","2">>, description |-> None,
       score |-> None, source |-> Some("google"),
       analysis_status |-> None]>>

\* the first n postings of a listing page
firstOf(listing, n) == SubSeq(listing, 1, Min(n, Len(listing)))

\* the texts a description page yields; '' when the page cannot be fetched
DescriptionTexts == {<<>>, <<"R","e","a","c","t",","," ","r","e","m","o","t","e">>}

\* how a getJobDescription call ends: the text it returns, and whether the
\* page it opened is left open.  page.close() is reached on the path that
\* returns the description; a page.goto or waitForSelector that throws goes
\* to the catch block, which returns '' and closes nothing
DescriptionFetches ==
    {[text |-> t, leaked |-> FALSE] : t \in DescriptionTexts}
    \cup {[text |-> <<>>, leaked |-> TRUE]}

\* the default of enrichJobsWithDescriptions's maxJobs parameter
maxJobs == 20

\* an enrichment that fetches for every posting
jobsToEnrichAll(js) == js

\* jobs.slice(0, maxJobs)
jobsToEnrich(js) == firstOf(js, maxJobs)

\* a listing fetch that returns what the page held although it was not
\* reached
scrapeSourceStale(reached, listing, n) == firstOf(listing, n)

\* scrapeLinkedIn / scrapeGoogleJobs: the postings of the page when it is
\* reached, [] when page.goto or waitForSelector throws (caught, logged)
scrapeSource(reached, listing, n) ==
    IF reached THEN firstOf(listing, n) ELSE <<>>

\* the pages a listing fetch leaves open: page.close() is reached when the
\* page was read; when newPage threw there is no page, when page.goto or
\* waitForSelector threw the page stays open
pagesLeftBy(reached, leaks) == IF ~reached /\ leaks THEN 1 ELSE 0

\* the postings getJobDescription is called for
fetchedFor(js) ==
    {k \in 1..Len(jobsToEnrich(js)) : js[k].url # <<>>}

\* enrichJobsWithDescriptions: job.description = getJobDescription(...)
\* for each of the first maxJobs postings that has a url
enrich(js, fetches) ==
    [k \in 1..Len(js) |->
        IF k \in fetchedFor(js)
        THEN [js[k] EXCEPT !.description = Some(fetches[k].text)]
        ELSE js[k]]

\* the pages the getJobDescription calls of an enrichment leave open
pagesLeftByEnrich(js, fetches) ==
    Cardinality({k \in fetchedFor(js) : fetches[k].leaked})

\* the merge in the order the fetches settled
allJobsAsSettled(r) ==
    IF r.settled[1] = "linkedin" THEN r.linkedIn[1] \o r.google[1]
    ELSE r.google[1] \o r.linkedIn[1]

\* [...linkedInJobs, ...googleJobs]
allJobs(r) == r.linkedIn[1] \o r.google[1]

\* a closeBrowser that leaves the browser as it is
closeBrowserNot(r) == r

\* closeBrowser(browser): browser.close() ends the browser and its pages
closeBrowser(r) == [r EXCEPT !.browser = FALSE, !.pages = 0]

\* the stores a run can find: nothing, or the record an earlier run wrote
\* for the first LinkedIn posting
StoresBefore ==
    {<<>>,
     <<newDocument(analyzeJob([LinkedInListing[1] EXCEPT
                                 !.description = Some(<<>>)], jobCriteria),
                   "analyzed", 0)>>}

\* createBrowser() has settled: when puppeteer.launch succeeded the try
\* block is entered with the browser open, when it threw the run throws
\* before the try block
StartRun(launches) ==
    /\ run = None
    /\ run' = Some([pc |-> IF launches THEN "scrape" ELSE "thrown",
                    browser |-> launches, pages |-> 0,
                    linkedIn |-> None, google |-> None,
                    reached |-> {}, settled |-> <<>>, jobs |-> <<>>, i |-> 1,
                    analyzed |-> 0, saved |-> 0, failed |-> 0,
                    threw |-> {}, storeFailed |-> FALSE, ret |-> 0,
                    before |-> Len(db)])
    /\ UNCHANGED <<app, enr, scoreVars, hashVars, dedupVars, storeVars>>

\* scrapeLinkedIn(browser, searchParams) settles
ScrapeLinkedIn(reached, n, leaks) ==
    /\ run # None
    /\ run[1].pc = "scrape"
    /\ run[1].linkedIn = None
    /\ run' = Some([run[1] EXCEPT
                      !.linkedIn = Some(scrapeSource(reached, LinkedInListing, n)),
                      !.reached = IF reached THEN @ \cup {"linkedin"} ELSE @,
                      !.settled = Append(@, "linkedin"),
                      !.pages = @ + pagesLeftBy(reached, leaks)])
    /\ UNCHANGED <<app, enr, scoreVars, hashVars, dedupVars, storeVars>>

\* scrapeGoogleJobs(browser, searchParams) settles
ScrapeGoogleJobs(reached, n, leaks) ==
    /\ run # None
    /\ run[1].pc = "scrape"
    /\ run[1].google = None
    /\ run' = Some([run[1] EXCEPT
                      !.google = Some(scrapeSource(reached, GoogleListing, n)),
                      !.reached = IF reached THEN @ \cup {"google"} ELSE @,
                      !.settled = Append(@, "google"),
                      !.pages = @ + pagesLeftBy(reached, leaks)])
    /\ UNCHANGED <<app, enr, scoreVars, hashVars, dedupVars, storeVars>>

\* Promise.all has settled: allJobs, uniqueJobs, the early return on an
\* empty batch (through finally), else enrichJobsWithDescriptions
CollectAndEnrich(fetches) ==
    /\ run # None
    /\ run[1].pc = "scrape"
    /\ run[1].linkedIn # None
    /\ run[1].google # None
    /\ LET uniqueJobs == removeDuplicateJobs(allJobs(run[1]))
       IN  /\ fetches \in [1..Len(uniqueJobs) -> DescriptionFetches]
           /\ \A k \in 1..Len(uniqueJobs) :
                k \notin fetchedFor(uniqueJobs) =>
                    fetches[k] = [text |-> <<>>, leaked |-> FALSE]
           /\ run' = Some(IF Len(uniqueJobs) = 0
                          THEN closeBrowser([run[1] EXCEPT
                                               !.pc = "returned", !.ret = 0])
                          ELSE [run[1] EXCEPT
                                  !.pc = "analyze",
                                  !.jobs = enrich(uniqueJobs, fetches),
                                  !.pages = @ + pagesLeftByEnrich(uniqueJobs,
                                                                  fetches)])
    /\ UNCHANGED <<app, enr, scoreVars, hashVars, dedupVars, storeVars>>

\* one turn of the loop of analyzeAndSaveJobsIncremental: analyzeJob throws
\* on jobs[i] or not, and the store answers saveJobToDatabase or not
AnalyzeAndSaveJob(throws, up) ==
    /\ run # None
    /\ run[1].pc = "analyze"
    /\ run[1].i <= Len(run[1].jobs)
    /\ LET r == run[1]
           posting == r.jobs[r.i]
           toSave == IF throws THEN [posting EXCEPT !.score = Some(0)]
                     ELSE analyzeJob(posting, jobCriteria)
           s == saveJobToDatabase(db, toSave, up, now)
       IN  /\ db' = s.db
           /\ run' = Some([r EXCEPT
                  !.i = @ + 1,
                  !.analyzed = IF throws THEN @ ELSE @ + 1,
                  !.failed = IF throws THEN @ + 1 ELSE @,
                  !.saved = IF throws \/ s.ret THEN @ + 1 ELSE @,
                  !.threw = IF throws THEN @ \cup {r.i} ELSE @,
                  !.storeFailed = @ \/ ~up])
    /\ UNCHANGED <<app, enr, now, refresh, last, scoreVars, hashVars, dedupVars>>

\* analyzeJobSafely on every posting: the analyzed posting, or the posting
\* with score 0 when the scorer threw on it
processedJobs(js, throwing) ==
    [k \in 1..Len(js) |->
        IF k \in throwing THEN [js[k] EXCEPT !.score = Some(0)]
        ELSE analyzeJob(js[k], jobCriteria)]

\* the documents of docs from the k-th on, each inserted into d unless it
\* raises a duplicate key error
RECURSIVE insertEach(_, _, _)
insertEach(d, docs, k) ==
    IF k > Len(docs) THEN d
    ELSE insertEach(IF duplicateKey(d, docs[k]) THEN d ELSE Append(d, docs[k]),
                    docs, k + 1)

\* Job.insertMany(docs, { ordered: false }) on the valid documents of a
\* run: every document that raises no duplicate key error is inserted, and
\* the call rejects when some document raised one
insertUnordered(d, docs) ==
    LET after == insertEach(d, docs, 1)
    IN  [db |-> after,
         error |-> IF Len(after) = Len(d) + Len(docs) THEN "none" ELSE "E11000"]

\* the incremental pass, saveJobSafely posting by posting: the collection
\* it leaves and the number of saves that returned true
RECURSIVE saveOneByOne(_, _, _, _)
saveOneByOne(d, js, up, at) ==
    IF js = <<>> THEN [db |-> d, saved |-> 0]
    ELSE LET s == saveJobToDatabase(d, Head(js), up, at)
             rest == saveOneByOne(s.db, Tail(js), up, at)
         IN  [db |-> rest.db,
              saved |-> rest.saved + (IF s.ret THEN 1 ELSE 0)]

\* the saving of the batch variant of analyzeAndSaveJobsIncremental
\* (incremental = false) on collection d: the processed postings are
\* inserted with one unordered insertMany and all counted as saved; when
\* insertMany rejects, the function calls itself with incremental = true
\* and saves posting by posting
saveBatch(d, processed, up, upAgain, at) ==
    LET jobsToInsert == [k \in 1..Len(processed) |->
                            newDocument(processed[k], "analyzed", at)]
        inserted == IF up THEN insertUnordered(d, jobsToInsert)
                    ELSE [db |-> d, error |-> "MongoNetworkError"]
        fallback == saveOneByOne(inserted.db, processed, upAgain, at)
    IN  IF inserted.error = "none"
        THEN [db |-> inserted.db, saved |-> Len(processed), answered |-> TRUE]
        ELSE [db |-> fallback.db, saved |-> fallback.saved,
              answered |-> up /\ upAgain]

\* the batch variant of analyzeAndSaveJobsIncremental: every posting is
\* analyzed, then the lot is saved; the pass with incremental = true
\* analyzes again, and the scorer throws on the same postings
AnalyzeAndSaveJobsBatch(throwing, up, upAgain) ==
    /\ run # None
    /\ run[1].pc = "analyze"
    /\ run[1].i = 1
    /\ throwing \subseteq 1..Len(run[1].jobs)
    /\ up => upAgain
    /\ LET r == run[1]
           s == saveBatch(db, processedJobs(r.jobs, throwing), up, upAgain, now)
       IN  /\ db' = s.db
           /\ run' = Some([r EXCEPT
                  !.i = Len(r.jobs) + 1,
                  !.analyzed = Len(r.jobs) - Cardinality(throwing),
                  !.failed = Cardinality(throwing),
                  !.saved = s.saved,
                  !.threw = throwing,
                  !.storeFailed = ~s.answered])
    /\ UNCHANGED <<app, enr, now, refresh, last, scoreVars, hashVars, dedupVars>>

\* the loop is over: return results.saved, through finally
ReturnSaved ==
    /\ run # None
    /\ run[1].pc = "analyze"
    /\ run[1].i > Len(run[1].jobs)
    /\ run' = Some(closeBrowser([run[1] EXCEPT
                                    !.pc = "returned", !.ret = run[1].saved]))
    /\ UNCHANGED <<app, enr, scoreVars, hashVars, dedupVars, storeVars>>

InitRun ==
    /\ run = None
    /\ app = appIdle
    /\ enr = None
    /\ db \in StoresBefore
    /\ now = 0
    /\ refresh = None
    /\ last = None
    /\ scoreIdle
    /\ hashIdle
    /\ dedupIdle

NextRun ==
    \/ \E launches \in BOOLEAN : StartRun(launches)
    \/ \E reached \in BOOLEAN, n \in 0..MaxPerSource, leaks \in BOOLEAN :
            ScrapeLinkedIn(reached, n, leaks)
    \/ \E reached \in BOOLEAN, n \in 0..MaxPerSource, leaks \in BOOLEAN :
            ScrapeGoogleJobs(reached, n, leaks)
    \/ \E fetches \in UNION {[1..n -> DescriptionFetches] :
                                n \in 0..(2 * MaxPerSource)} :
            CollectAndEnrich(fetches)
    \/ \E throws \in BOOLEAN, up \in BOOLEAN : AnalyzeAndSaveJob(throws, up)
    \/ \E throwing \in SUBSET (1..(2 * MaxPerSource)),
          up \in BOOLEAN, upAgain \in BOOLEAN :
            AnalyzeAndSaveJobsBatch(throwing, up, upAgain)
    \/ ReturnSaved

SpecRun == InitRun /\ [][NextRun]_vars


----------------------------------------------------------------------------
(* index.runWeeklyJobs: the invocations made by the scheduler's ticks and  *)
(* by --weekly, in the order they were made.  An invocation runs without   *)
(* interruption up to its next await, so each action is one such stretch.  *)

MaxTriggers == 4

\* the invocations that are awaiting runWeeklyJobProcessing or
\* getDatabaseStats
active(a) ==
    {k \in 1..Len(a.pcs) : a.pcs[k] \in {"processing", "stats"}}

\* a guard that lets every invocation through
alreadyRunningNever(a) == FALSE

\* if (appState.isRunning)
alreadyRunning(a) == a.isRunning

\* runWeeklyJobs is invoked: it returns at once when isRunning is set, else
\* it sets isRunning, enters the try block and awaits
\* runWeeklyJobProcessing(searchParams)
RunWeeklyJobs ==
    /\ Len(app.pcs) < MaxTriggers
    /\ app' = IF alreadyRunning(app)
              THEN [app EXCEPT !.pcs = Append(@, "skipped")]
              ELSE [isRunning |-> TRUE, pcs |-> Append(app.pcs, "processing")]
    /\ UNCHANGED <<run, enr, scoreVars, hashVars, dedupVars, storeVars>>

\* runWeeklyJobProcessing settles for invocation k: when it resolves the
\* invocation goes on to await getDatabaseStats(), when it rejects the
\* catch block rethrows and the finally block clears isRunning
RunWeeklyJobProcessingSettles(k, throws) ==
    /\ k \in 1..Len(app.pcs)
    /\ app.pcs[k] = "processing"
    /\ app' = IF throws
              THEN [isRunning |-> FALSE,
                    pcs |-> [app.pcs EXCEPT ![k] = "thrown"]]
              ELSE [app EXCEPT !.pcs[k] = "stats"]
    /\ UNCHANGED <<run, enr, scoreVars, hashVars, dedupVars, storeVars>>

\* getDatabaseStats resolves for invocation k (it catches what the store
\* throws): the invocation returns through the finally block
GetDatabaseStatsSettles(k) ==
    /\ k \in 1..Len(app.pcs)
    /\ app.pcs[k] = "stats"
    /\ app' = [isRunning |-> FALSE,
               pcs |-> [app.pcs EXCEPT ![k] = "returned"]]
    /\ UNCHANGED <<run, enr, scoreVars, hashVars, dedupVars, storeVars>>

InitApp ==
    /\ runIdle
    /\ storeIdle
    /\ scoreIdle
    /\ hashIdle
    /\ dedupIdle

NextApp ==
    \/ RunWeeklyJobs
    \/ \E k \in 1..MaxTriggers, throws \in BOOLEAN :
            RunWeeklyJobProcessingSettles(k, throws)
    \/ \E k \in 1..MaxTriggers : GetDatabaseStatsSettles(k)

SpecApp == InitApp /\ [][NextApp]_vars

----------------------------------------------------------------------------
(* scraper.enrichJobsWithDescriptions followed by the scoring loop, fetch  *)
(* by fetch and posting by posting, on lists long enough to pass maxJobs.  *)
(* Here the scorer does not throw and the store answers; the run with a    *)
(* failing scorer and store is SpecRun.                                    *)

MaxSurvivors == 21

MaxEmptyFetches == 1

DigitChars == <<"0", "1", "2", "3", "4", "5", "6", "7", "8", "9">>

\* `${k}`
RECURSIVE Digits(_)
Digits(k) ==
    IF k < 10 THEN <<DigitChars[k + 1]>>
    ELSE Digits(k \div 10) \o <<DigitChars[(k % 10) + 1]>>

\* the card of the listing page whose link element is missing: url ''
UrlLess == 2

\* the n postings that survived removeDuplicateJobs, in page order
Survivors(n) ==
    [k \in 1..n |->
        [title |-> <<"J","o","b"," ">> \o Digits(k), company |-> <<"A","c","m","e">>,
         url |-> IF k = UrlLess THEN <<>> ELSE <<"l","/">> \o Digits(k),
         description |-> None, score |-> None,
         source |-> Some("linkedin"), analysis_status |-> None]]

\* the lengths of the lists enriched: short ones and ones around maxJobs
SurvivorCounts == {n \in 0..MaxSurvivors : n <= 3 \/ n >= maxJobs}

\* enrichJobsWithDescriptions(browser, uniqueJobs) is called
EnrichJobsWithDescriptions(n) ==
    /\ enr = None
    /\ enr' = Some([pc |-> "loop", jobs |-> Survivors(n), i |-> 1,
                    inFlight |-> {}, startedAt |-> <<>>, returned |-> 0,
                    delays |-> 0, pages |-> 0, empties |-> 0])
    /\ UNCHANGED <<run, app, scoreVars, hashVars, dedupVars, storeVars>>

\* if (job && job.url) is false: the loop goes to the next posting
SkipPosting ==
    /\ enr # None
    /\ enr[1].pc = "loop"
    /\ enr[1].i <= Len(jobsToEnrich(enr[1].jobs))
    /\ enr[1].jobs[enr[1].i].url = <<>>
    /\ enr' = Some([enr[1] EXCEPT !.i = @ + 1])
    /\ UNCHANGED <<run, app, scoreVars, hashVars, dedupVars, storeVars>>

\* a loop that calls getJobDescription and goes on without awaiting it
callGetJobDescription(e) == [e EXCEPT !.i = @ + 1]

\* job.description = await getJobDescription(...): the loop stops until the
\* call has returned
awaitGetJobDescription(e) == [e EXCEPT !.pc = "fetching"]

\* getJobDescription(browser, job.url) is called for posting i
GetJobDescription ==
    /\ enr # None
    /\ enr[1].pc = "loop"
    /\ enr[1].i <= Len(jobsToEnrich(enr[1].jobs))
    /\ enr[1].jobs[enr[1].i].url # <<>>
    /\ enr' = Some(awaitGetJobDescription(
                    [enr[1] EXCEPT !.inFlight = @ \cup {enr[1].i},
                                   !.startedAt = Append(@, enr[1].i)]))
    /\ UNCHANGED <<run, app, scoreVars, hashVars, dedupVars, storeVars>>

\* the getJobDescription call for posting k returns: its text becomes the
\* description, and the page it left open stays open
GetJobDescriptionSettles(k, f) ==
    /\ enr # None
    /\ k \in enr[1].inFlight
    /\ f.text = <<>> => enr[1].empties < MaxEmptyFetches
    /\ enr' = Some([enr[1] EXCEPT
                      !.jobs[k].description = Some(f.text),
                      !.inFlight = @ \ {k},
                      !.returned = @ + 1,
                      !.pages = IF f.leaked THEN @ + 1 ELSE @,
                      !.empties = IF f.text = <<>> THEN @ + 1 ELSE @,
                      !.pc = IF @ = "fetching" THEN "delay" ELSE @])
    /\ UNCHANGED <<run, app, scoreVars, hashVars, dedupVars, storeVars>>

\* await new Promise((resolve) => setTimeout(resolve, 1000)) is over
DelayElapsed ==
    /\ enr # None
    /\ enr[1].pc = "delay"
    /\ enr' = Some([enr[1] EXCEPT !.pc = "loop", !.i = @ + 1,
                                  !.delays = @ + 1])
    /\ UNCHANGED <<run, app, scoreVars, hashVars, dedupVars, storeVars>>

\* the loop is over: return jobs, and analyzeAndSaveJobsIncremental starts
\* on them
ReturnJobs ==
    /\ enr # None
    /\ enr[1].pc = "loop"
    /\ enr[1].i > Len(jobsToEnrich(enr[1].jobs))
    /\ enr' = Some([enr[1] EXCEPT !.pc = "scoring", !.i = 1])
    /\ UNCHANGED <<run, app, scoreVars, hashVars, dedupVars, storeVars>>

\* one turn of the loop of analyzeAndSaveJobsIncremental: posting i is
\* scored as it is and saved
AnalyzeAndSaveNext ==
    /\ enr # None
    /\ enr[1].pc = "scoring"
    /\ enr[1].i <= Len(enr[1].jobs)
    /\ LET analyzedJob == analyzeJob(enr[1].jobs[enr[1].i], jobCriteria)
       IN  /\ db' = saveJobToDatabase(db, analyzedJob, TRUE, now).db
           /\ enr' = Some([enr[1] EXCEPT !.jobs[enr[1].i] = analyzedJob,
                                         !.i = @ + 1])
    /\ UNCHANGED <<run, app, now, refresh, last, scoreVars, hashVars, dedupVars>>

\* the scoring loop is over
ReturnResults ==
    /\ enr # None
    /\ enr[1].pc = "scoring"
    /\ enr[1].i > Len(enr[1].jobs)
    /\ enr' = Some([enr[1] EXCEPT !.pc = "returned"])
    /\ UNCHANGED <<run, app, scoreVars, hashVars, dedupVars, storeVars>>

InitEnrich ==
    /\ runIdle
    /\ storeIdle
    /\ scoreIdle
    /\ hashIdle
    /\ dedupIdle

NextEnrich ==
    \/ \E n \in SurvivorCounts : EnrichJobsWithDescriptions(n)
    \/ SkipPosting
    \/ GetJobDescription
    \/ \E k \in 1..MaxSurvivors, f \in DescriptionFetches :
            GetJobDescriptionSettles(k, f)
    \/ DelayElapsed
    \/ ReturnJobs
    \/ AnalyzeAndSaveNext
    \/ ReturnResults

SpecEnrich == InitEnrich /\ [][NextEnrich]_vars
----------------------------------------------------------------------------
(* Properties of the scorer, checked under SpecScore *)

text == jobText(job)

scoreOf(r) == r[1].score[1]

beforeBonus(p) == p.skill + p.exp + p.location + p.exclusion

\* C1: analyzeJob returns a posting whose score is an integer between 0 and
\* 100, whatever the matched skills, bonuses and excluded keywords
ScoreInBounds ==
    res # None => res[1].score # None /\ scoreOf(res) \in 0..100

\* C1 witness: the five sub-scores add up to more than 100
ScoreClampedAtCeiling ==
    /\ res # None
    /\ beforeBonus(parts[1]) + parts[1].bonus > 100
    /\ scoreOf(res) = 100

\* the lowercased skill and its listed variants, as the scorer's table of
\* skill variations states them for the skills of SkillUniverse
listedVariants(skill) ==
    LET key == toLowerCase(skill)
    IN  {key} \cup (IF key = <<"r","e","a","c","t">> THEN {<<"r","e","a","c","t","j","s">>, <<"r","e","a","c","t",".","j","s">>} ELSE {})
              \cup (IF key = <<"t","y","p","e","s","c","r","i","p","t">> THEN {<<"t","s">>} ELSE {})
              \cup (IF key = <<"p","y","t","h","o","n">> THEN {<<"p","y">>} ELSE {})

\* m: the configured skills the text contains, directly or as a variant
skillsInText ==
    {k \in 1..Len(criteria.coreSkills) :
        \E v \in listedVariants(criteria.coreSkills[k]) : textIncludes(text, v)}

phraseSet(level) == Range(targetTerms(toLowerCase(level)))

preferredPhraseHit ==
    \E p \in phraseSet(criteria.experienceLevel[1]) : textIncludes(text, p)

otherLevelPhraseHit ==
    \E l \in 1..3 :
        /\ levelNames[l] # toLowerCase(criteria.experienceLevel[1])
        /\ \E p \in Range(levelMappings[l]) : textIncludes(text, p)

\* C3: the experience sub-score is 15 without a preferred level, otherwise
\* 30 on a phrase of the preferred level, 8 on a phrase of another level
\* only, 15 on neither
ExperienceTable ==
    parts # None =>
        parts[1].exp =
            IF criteria.experienceLevel = None THEN 15
            ELSE IF preferredPhraseHit THEN 30
            ELSE IF otherLevelPhraseHit THEN 8
            ELSE 15

\* C3 witness: a phrase of the preferred level and a phrase of another
\* level both occur, and the sub-score is 30
PreferredAndOtherLevelHit ==
    /\ parts # None
    /\ criteria.experienceLevel # None
    /\ preferredPhraseHit
    /\ otherLevelPhraseHit
    /\ parts[1].exp = 30

remoteHit ==
    /\ criteria.remotePreference \in {<<"r","e","m","o","t","e">>, <<"h","y","b","r","i","d">>}
    /\ \E t \in Range(remoteTerms) : textIncludes(text, t)

locationHit ==
    \E k \in 1..Len(criteria.locations) :
        textIncludes(text, toLowerCase(criteria.locations[k]))

\* C4: the location sub-score is 15, 25 or 30; 30 on a remote hit, at
\* least 25 on a preferred-location hit, and 30 (not a sum) on both
LocationMaxNotSum ==
    parts # None =>
        /\ parts[1].location \in {15, 25, 30}
        /\ remoteHit => parts[1].location = 30
        /\ locationHit => parts[1].location >= 25
        /\ (remoteHit /\ locationHit) => parts[1].location = 30

\* C4 witness: a remote hit and a location hit on the same posting
RemoteAndLocationHit ==
    /\ parts # None
    /\ remoteHit
    /\ locationHit
    /\ parts[1].location = 30

\* C5: with one more excluded keyword that occurs in the text the score is
\* strictly lower, or equal when it was 0 already
ExclusionMonotone ==
    prevScore # None =>
        \/ scoreOf(res) < prevScore[1]
        \/ scoreOf(res) = prevScore[1] /\ prevScore[1] = 0

\* C5 witness: the score without the keyword was clamped to 100 and the
\* score with it is lower
ExclusionBelowCeiling ==
    /\ prevScore = Some(100)
    /\ beforeBonus(parts[1]) + parts[1].bonus + 10 > 100
    /\ scoreOf(res) < 100

\* the posting and criteria of the end-to-end scenario
isScenario ==
    /\ job.title = <<"F","r","o","n","t","e","n","d"," ","D","e","v","e","l","o","p","e","r">>
    /\ job.description = Some(MockDescription)
    /\ criteria.coreSkills = <<<<"R","e","a","c","t">>, <<"T","y","p","e","S","c","r","i","p","t">>>>
    /\ criteria.experienceLevel = Some(<<"m","i","d">>)
    /\ criteria.remotePreference = <<"r","e","m","o","t","e">>
    /\ parts # None

AbsentDescriptionScoresAsEmpty ==
    (res # None /\ job.description = None) =>
        scoreOf(res) =
            analyzeJob([job EXCEPT !.description = Some(<<>>)], criteria).score[1]

----------------------------------------------------------------------------
(* Properties of createJobHash, checked under SpecHash *)

equalIgnoringCase(a, b) == toLowerCase(a) = toLowerCase(b)

\* C8: two postings whose title, company and url are equal ignoring case
\* get the same hash, whatever their description, score, source and status
HashOfLowercasedIdentity ==
    (hashP # None /\ hashQ # None) =>
        ((/\ equalIgnoringCase(jobP.title, jobQ.title)
          /\ equalIgnoringCase(jobP.company, jobQ.company)
          /\ equalIgnoringCase(jobP.url, jobQ.url)) => hashP = hashQ)

\* C8 witness: two postings that differ in case and in every other field
\* have been given the same hash
SameHashDespiteCase ==
    /\ hashP # None
    /\ hashP = hashQ
    /\ jobP.title # jobQ.title
    /\ jobP.company # jobQ.company
    /\ jobP.url # jobQ.url
    /\ jobP.description # jobQ.description
    /\ jobP.score # jobQ.score
    /\ jobP.source # jobQ.source
    /\ jobP.analysis_status # jobQ.analysis_status

----------------------------------------------------------------------------
(* Properties of removeDuplicateJobs, checked under SpecDedup *)

\* C9: removeDuplicateJobs applied to its own output returns that output,
\* element for element and in the same order
DedupIdempotent ==
    again # None => again[1] = unique[1]

\* C9 witness: the first pass removed a posting and kept at least two, and
\* the second pass has run
SecondPassAfterRemoval ==
    /\ again # None
    /\ Len(unique[1]) < Len(jobs)
    /\ Len(unique[1]) >= 2

\* out is a subsequence of in, in the order of in
isSubsequence(out, in) ==
    \E f \in [1..Len(out) -> 1..Len(in)] :
        /\ \A a, b \in 1..Len(out) : a < b => f[a] < f[b]
        /\ \A a \in 1..Len(out) : out[a] = in[f[a]]

\* C10: the output is a subsequence of the input, holds no two postings of
\* the same title and company ignoring case, and holds of each such class
\* exactly the posting that comes first in the input
DedupKeepsFirstOfEachClass ==
    unique # None =>
        LET out == unique[1]
        IN  /\ isSubsequence(out, jobs)
            /\ \A a, b \in 1..Len(out) :
                   a # b => ~sameTitleAndCompany(out[a], out[b])
            /\ \A i \in 1..Len(jobs) :
                   (\A k \in 1..(i - 1) : ~sameTitleAndCompany(jobs[k], jobs[i]))
                       => \E a \in 1..Len(out) :
                              /\ out[a] = jobs[i]
                              /\ \A b \in 1..Len(out) :
                                     sameTitleAndCompany(out[b], jobs[i]) => b = a

\* C10 witness: a class occurs twice with different records, after a
\* posting of another class, and its first record is the one kept
FirstOfClassKept ==
    /\ unique # None
    /\ \E i, k \in 1..Len(jobs) :
           /\ 1 < i
           /\ i < k
           /\ sameTitleAndCompany(jobs[i], jobs[k])
           /\ jobs[i] # jobs[k]
           /\ ~sameTitleAndCompany(jobs[1], jobs[i])
           /\ unique[1] = <<jobs[1], jobs[i]>>

----------------------------------------------------------------------------
(* Properties of the store operations, checked under SpecStore *)

\* the step is the whole of a call of op: it starts and ends with no
\* weeklyRefreshJobs call in flight, and op is what it leaves in last
callOf(op) ==
    /\ refresh = None
    /\ refresh' = None
    /\ now' = now
    /\ last' # None
    /\ last'[1].op = op

hashesOf(d) == {d[i].hash : i \in 1..Len(d)}

urlsOf(batch) == {batch[k].url : k \in 1..Len(batch)}

\* the number of documents of d equal to doc
copies(d, doc) == Cardinality({i \in 1..Len(d) : d[i] = doc})

\* C11: saveJobToDatabase(p) adds one record with hash createJobHash(p)
\* and returns true when no stored record has that hash, and returns false
\* and leaves the store unchanged when one has
SaveWritesUnlessStored ==
    [][callOf("saveJobToDatabase") =>
        LET p == last'[1].arg[1]
        IN  IF createJobHash(p) \in hashesOf(db)
            THEN last'[1].ret = FALSE /\ db' = db
            ELSE /\ last'[1].ret = TRUE
                 /\ Len(db') = Len(db) + 1
                 /\ SubSeq(db', 1, Len(db)) = db
                 /\ db'[Len(db')].hash = createJobHash(p)]_vars

\* the record is more than 7 days old at time at
olderThanAWeek(doc, at) == at - doc.scraped_at > 7

\* the step ends a weeklyRefreshJobs call whose deleteMany was answered
refreshEnds == refresh # None /\ refresh[1].pc = "insertMany"

\* C12: when a weeklyRefreshJobs call has deleted, a record stored before
\* the call is gone if it was more than 7 days old and its URL is not in
\* the batch, and is otherwise stored as many times as before
RefreshDeletesExactlyExpired ==
    [][refreshEnds =>
        LET call == refresh[1]
        IN  \A i \in 1..Len(call.before) :
                LET doc == call.before[i]
                IN  copies(db', doc) =
                        IF /\ olderThanAWeek(doc, now)
                           /\ doc.url \notin urlsOf(call.jobs)
                        THEN 0
                        ELSE copies(call.before, doc)]_vars

\* an old record whose URL is not in the batch has been deleted while an
\* old record whose URL is in the batch is still stored
OldRecordDroppedOldRecordKept ==
    /\ refreshEnds
    /\ LET call == refresh[1]
       IN  /\ \E i \in 1..Len(call.before) :
                /\ olderThanAWeek(call.before[i], now)
                /\ call.before[i].url \notin urlsOf(call.jobs)
                /\ copies(db, call.before[i]) = 0
           /\ \E i \in 1..Len(call.before) :
                /\ olderThanAWeek(call.before[i], now)
                /\ call.before[i].url \in urlsOf(call.jobs)
                /\ copies(db, call.before[i]) = 1

\* C13: during a weeklyRefreshJobs call the new postings are those of the
\* batch whose URL was stored before anything was deleted, nothing is
\* deleted before that split is made, and a record whose URL is in the
\* batch is stored after every step of the call
RefreshNeverDropsBatchUrl ==
    [][refresh # None =>
        LET call == refresh[1]
        IN  /\ \A k \in 1..Len(call.jobs) :
                (call.jobs[k].url \notin urlsOf(call.before))
                    <=> (\E n \in 1..Len(call.newJobs) :
                            call.newJobs[n] = call.jobs[k])
            /\ call.pc = "deleteMany" => db = call.before
            /\ \A i \in 1..Len(db) :
                 db[i].url \in urlsOf(call.jobs)
                    => copies(db', db[i]) = copies(db, db[i])]_vars

\* deleteMany has run and left an old record whose URL is in the batch,
\* and the call has new postings to insert
OldBatchUrlKeptBeforeInsert ==
    /\ refreshEnds
    /\ refresh[1].newJobs # <<>>
    /\ \E i \in 1..Len(db) :
            /\ olderThanAWeek(db[i], now)
            /\ db[i].url \in urlsOf(refresh[1].jobs)

\* C14: a weeklyRefreshJobs call on valid postings that reaches the store
\* returns the number of batch postings whose URL was not stored before
\* the call, has inserted one record for each of them and nothing else, and
\* leaves every stored record whose URL is in the batch as it was, once
RefreshInsertsUnseenUrls ==
    [][(/\ refreshEnds
        /\ \A k \in 1..Len(refresh[1].jobs) : valid(refresh[1].jobs[k])
        /\ last'[1].outcome # "MongoNetworkError") =>
        LET call == refresh[1]
            unseen == {k \in 1..Len(call.jobs) :
                          call.jobs[k].url \notin urlsOf(call.before)}
        IN  /\ last'[1].op = "weeklyRefreshJobs"
            /\ last'[1].outcome = "returned"
            /\ last'[1].ret = Cardinality(unseen)
            /\ Len(db') = Len(db) + Cardinality(unseen)
            /\ SubSeq(db', 1, Len(db)) = db
            /\ \A k \in unseen :
                 \E i \in (Len(db) + 1)..Len(db') :
                    /\ db'[i].url = call.jobs[k].url
                    /\ db'[i].title = call.jobs[k].title
                    /\ db'[i].score = call.jobs[k].score
            /\ \A i \in 1..Len(call.before) :
                 call.before[i].url \in urlsOf(call.jobs)
                    => copies(db', call.before[i]) = 1]_vars

\* C15: no two records of the store have the same hash
HashUnique ==
    \A i, k \in 1..Len(db) : i # k => db[i].hash # db[k].hash

\* a weeklyRefreshJobs call was refused a second record of a stored hash
DuplicateHashRefused ==
    /\ last # None
    /\ last[1].op = "weeklyRefreshJobs"
    /\ last[1].outcome = "E11000"
    /\ db # <<>>

\* the records of d2 whose hash no record of d1 has
createdIn(d1, d2) == {i \in 1..Len(d2) : d2[i].hash \notin hashesOf(d1)}

\* a stored record changes its status only from pending to analyzed, in
\* analyzePendingJobs, which stores a score with it
statusChangesByAnalysis ==
    \A i \in 1..Len(db), k \in 1..Len(db') :
        (db[i].hash = db'[k].hash
         /\ db[i].analysis_status # db'[k].analysis_status) =>
            /\ callOf("analyzePendingJobs")
            /\ db[i].analysis_status = "pending"
            /\ db'[k].analysis_status = "analyzed"
            /\ db'[k].score # None

\* C16 as stated: every record is created pending, and becomes analyzed
\* only by a later scoring step that stores the score
RecordsCreatedPending ==
    [][/\ \A i \in createdIn(db, db') : db'[i].analysis_status = "pending"
       /\ statusChangesByAnalysis]_vars

\* C16: a record created by saveJobs is created pending and becomes
\* analyzed only by analyzePendingJobs, which stores a score; a record
\* created by saveJobToDatabase or weeklyRefreshJobs is created analyzed
RecordsCreatedByPath ==
    [][/\ \A i \in createdIn(db, db') :
            IF callOf("saveJobs")
            THEN db'[i].analysis_status = "pending"
            ELSE /\ callOf("saveJobToDatabase") \/ refreshEnds
                 /\ db'[i].analysis_status = "analyzed"
       /\ statusChangesByAnalysis]_vars

\* saveJobToDatabase has just created an analyzed record in a store that
\* holds a pending record of saveJobs
AnalyzedCreatedBesidePending ==
    /\ last # None
    /\ last[1].op = "saveJobToDatabase"
    /\ last[1].ret = TRUE
    /\ db # <<>>
    /\ db[Len(db)].analysis_status = "analyzed"
    /\ db[Len(db)].hash = createJobHash(last[1].arg[1])
    /\ \E i \in 1..Len(db) : db[i].analysis_status = "pending"

terminal(doc) == doc.analysis_status \in {"analyzed", "failed"}

\* the step is the deleteMany of a weeklyRefreshJobs call and doc is more
\* than 7 days old with a URL that is not in the batch
retentionDeletes(doc) ==
    /\ refresh # None
    /\ refresh[1].pc = "deleteMany"
    /\ olderThanAWeek(doc, now)
    /\ doc.url \notin urlsOf(refresh[1].jobs)

\* C17: a record whose status is analyzed or failed is stored unchanged
\* after every step, unless the step is the retention deletion of
\* weeklyRefreshJobs and deletes it
TerminalUntilRetention ==
    [][\A i \in 1..Len(db) :
            terminal(db[i]) =>
                \/ copies(db', db[i]) = copies(db, db[i])
                \/ retentionDeletes(db[i]) /\ copies(db', db[i]) = 0]_vars

\* analyzePendingJobs has just analyzed one pending record in a store that
\* held an analyzed record
PendingAnalyzedBesideAnalyzed ==
    /\ last # None
    /\ last[1].op = "analyzePendingJobs"
    /\ last[1].ret = 1
    /\ Cardinality({i \in 1..Len(db) : db[i].analysis_status = "analyzed"}) = 2

----------------------------------------------------------------------------
(* Properties of runWeeklyJobProcessing, checked under SpecRun *)

\* the run has ended with a normal return
runReturned == run # None /\ run[1].pc = "returned"

StoreFailureEndsRun == runReturned => ~run[1].storeFailed

\* C20: a run that reached none of its sources does not end with a normal
\* return
UnreachableSourcesEndRun == runReturned => run[1].reached # {}


----------------------------------------------------------------------------
(* A further property of createJobHash, checked under SpecHash *)

\* the (title, company, url) triples of two postings differ after lowercasing
triplesDiffer(a, b) ==
    \/ toLowerCase(a.title) # toLowerCase(b.title)
    \/ toLowerCase(a.company) # toLowerCase(b.company)
    \/ toLowerCase(a.url) # toLowerCase(b.url)

\* C30: two postings whose (title, company, url) triples differ after
\* lowercasing are never given the same content to hash, so never the same
\* hash, and saveJobToDatabase's findOne({ hash }) never finds the one when
\* asked for the other
DistinctTriplesDistinctHash ==
    (hashP # None /\ hashQ # None /\ triplesDiffer(jobP, jobQ)) =>
        hashP # hashQ

----------------------------------------------------------------------------
(* A further property of the store operations, checked under SpecStore *)

\* no two documents of d have the same url
urlsUnique(d) == \A i, k \in 1..Len(d) : i # k => d[i].url # d[k].url

\* C29: a saveJobToDatabase call, and each step of a weeklyRefreshJobs call,
\* leaves no two records with the same url in a store that had none: after
\* any sequence of these calls no two stored records have the same url
SaveAndRefreshKeepUrlsUnique ==
    [][((callOf("saveJobToDatabase") \/ refresh # None) /\ urlsUnique(db)) =>
        urlsUnique(db')]_vars

----------------------------------------------------------------------------
(* Further properties of runWeeklyJobProcessing, checked under SpecRun *)

\* C26: when the store answered every request of a run, the count the run
\* returns is the number of records the store holds when the run returns
\* beyond those it held when the run started
SavedCountIsRecordsWritten ==
    (runReturned /\ ~run[1].storeFailed) =>
        run[1].ret = Len(db) - run[1].before

\* the postings as the listing pages gave them, without what enrichment added
listed(js) == [k \in 1..Len(js) |-> [js[k] EXCEPT !.description = None]]

NoPageLeftOpen == run # None => run[1].pages = 0

\* C23: the browser a run opened is open while the run scrapes and
\* analyzes, and closed once the run has returned or thrown
BrowserClosedWhenRunEnds ==
    run # None =>
        (run[1].browser <=> run[1].pc \in {"scrape", "analyze"})

\* C23 witness: a run in which LinkedIn was not reached, the scorer threw and
\* the store did not answer has returned with its browser closed
BrowserClosedAfterFailures ==
    /\ runReturned
    /\ run[1].threw # {}
    /\ run[1].storeFailed
    /\ "linkedin" \notin run[1].reached
    /\ ~run[1].browser
    /\ run[1].pages = 0

\* C25: the postings handed on after deduplication are those of LinkedIn
\* in page order followed by those of Google Jobs in page order, whichever
\* fetch settled first, and a Google Jobs posting with the title and
\* company of a LinkedIn posting is dropped
MergedInDeclarationOrder ==
    (run # None /\ run[1].pc \in {"analyze", "returned"}) =>
        LET l == run[1].linkedIn[1]
            g == run[1].google[1]
            js == listed(run[1].jobs)
            fromLinkedIn == SelectSeq(js, LAMBDA j : j.source = Some("linkedin"))
            fromGoogle == SelectSeq(js, LAMBDA j : j.source = Some("google"))
        IN  /\ js = fromLinkedIn \o fromGoogle
            /\ fromLinkedIn = removeDuplicateJobs(l)
            /\ fromGoogle =
                SelectSeq(removeDuplicateJobs(g),
                          LAMBDA j : \A k \in 1..Len(l) : ~sameTitleAndCompany(l[k], j))

\* C25 witness: Google Jobs settled first, both pages list the same job,
\* and the posting kept is LinkedIn's, ahead of the other Google posting
GoogleFirstLinkedInKept ==
    /\ run # None
    /\ run[1].pc = "analyze"
    /\ run[1].settled = <<"google", "linkedin">>
    /\ Len(run[1].linkedIn[1]) = 1
    /\ Len(run[1].google[1]) = 2
    /\ Len(run[1].jobs) = 2
    /\ run[1].jobs[1].url = <<"l","/","1">>
    /\ run[1].jobs[2].url = <<"g","/","2">>

----------------------------------------------------------------------------
(* A property of index.runWeeklyJobs, checked under SpecApp *)

\* C27: at most one invocation of runWeeklyJobs is in progress, isRunning
\* is set exactly while one is, and an invocation made while one is in
\* progress is skipped and changes nothing else, while an invocation made
\* when none is in progress starts a run
OneRunAtATime ==
    /\ [](/\ Cardinality(active(app)) <= 1
          /\ app.isRunning <=> active(app) # {})
    /\ [][Len(app'.pcs) = Len(app.pcs) + 1 =>
            IF active(app) # {}
            THEN /\ app'.pcs = Append(app.pcs, "skipped")
                 /\ app'.isRunning = app.isRunning
            ELSE app'.pcs = Append(app.pcs, "processing")]_vars

\* C27 witness: the second invocation was skipped while the first was in
\* progress, the first threw, the third ran and returned, and the fourth
\* is in progress
RunStartedAfterThrownAndReturned ==
    /\ app.pcs = <<"thrown", "skipped", "returned", "processing">>
    /\ app.isRunning

----------------------------------------------------------------------------
(* Properties of enrichJobsWithDescriptions, checked under SpecEnrich *)

\* the postings a getJobDescription call was made for
requested(e) == Range(e.startedAt)

\* C24: at most one getJobDescription call is in flight; the calls are made
\* in list order; and when a call is made every earlier call has returned
\* and the delay after it has elapsed
FetchesOneAtATime ==
    enr # None =>
        LET e == enr[1]
            made == Len(e.startedAt)
        IN  /\ Cardinality(e.inFlight) <= 1
            /\ \A m \in 1..(made - 1) : e.startedAt[m] < e.startedAt[m + 1]
            /\ e.inFlight # {} =>
                    /\ e.inFlight = {e.startedAt[made]}
                    /\ e.returned = made - 1
                    /\ e.delays = made - 1
            /\ e.inFlight = {} => e.returned = made

\* C24 witness: the second call is in flight after the first has returned
\* its text and one delay has elapsed
SecondFetchAfterDelay ==
    /\ enr # None
    /\ enr[1].startedAt = <<1, 3>>
    /\ enr[1].inFlight = {3}
    /\ enr[1].returned = 1
    /\ enr[1].delays = 1
    /\ enr[1].jobs[1].description = Some(<<"R","e","a","c","t",","," ","r","e","m","o","t","e">>)

\* the postings that have been handed to analyzeJob
scored(e) ==
    IF e.pc = "scoring" THEN 1..(e.i - 1)
    ELSE IF e.pc = "returned" THEN 1..Len(e.jobs)
    ELSE {}

====
